---------------------------- MODULE Spec2Model ----------------------------
(***************************************************************************)
(* The driven, damped pendulum notebook (08_Chaotic_Pendulum): the         *)
(* semi-implicit Euler integrator euler(), the stroboscopic (Poincare)     *)
(* index loop, the Lyapunov fit loop and the bifurcation sweep loop.       *)
(*                                                                         *)
(* Numbers.  The notebook computes in floating point; the model computes   *)
(* in fixed point over the integers:                                       *)
(*   - an angle is an integer number of 1/7 rad, so that pi is PI = 22;    *)
(*   - a time is an integer number of ticks, an angular velocity an        *)
(*     integer number of angle units per tick, so theta + omega*dt is      *)
(*     exact;                                                              *)
(*   - a sine is an integer number of 1/Q, and so is the damping gamma;    *)
(*     a product that leaves the grid is rounded toward zero (Trunc).      *)
(* Arrays are sequences, so the Python index k is the index k+1 here.      *)
(***************************************************************************)
EXTENDS Integers, Sequences, FiniteSets, TLC

VARIABLES
    \* arguments and locals of one call of euler (lines 159-177)
    t, FD, dt, theta, omega, n, pc,
    \* the notebook's globals of line 195 (passed on as *params)
    l, theta0, omega0, gamma, OmegaD,
    \* the caller of euler: its global step of line 196 and, call by call, the
    \* arguments it passed and the arrays it was returned (line 302)
    Dt, calls,
    \* the in-phase index loop (lines 549-558)
    longt, inPhase, sn, m, spc,
    \* the bifurcation sweep (lines 658-665)
    F, run, thetaB, th, thName, wpc, wst,
    \* the Lyapunov cells (lines 330-341 and 388-393)
    dtheta0, theta1, theta2, Dtheta, li, ind, popt, lpc

eulerVars  == <<t, FD, dt, theta, omega, n, pc>>
paramVars  == <<l, theta0, omega0, gamma, OmegaD>>
callerVars == <<Dt, calls>>
strobeVars == <<longt, inPhase, sn, m, spc>>
sweepVars  == <<F, run, thetaB, th, thName, wpc, wst>>
lyapVars   == <<dtheta0, theta1, theta2, Dtheta, li, ind, popt, lpc>>
vars == <<eulerVars, paramVars, callerVars, strobeVars, sweepVars, lyapVars>>

---------------------------------------------------------------------------
(* Bounds of the model. *)

\* longest time grid given to a stepwise call of euler
MaxN == 4
\* resolution of the fixed-point fractions (sines, damping): units of 1/Q
Q == 8
\* iterations of the in-phase loop the model follows before it stops looking
MaxIter == 24

---------------------------------------------------------------------------
(* Arithmetic. *)

\* pi, in angle units of 1/7 rad (scipy.constants.pi)
PI == 22
\* angle units in a radian: PI / Rad = 22/7
Rad == 7
\* gravitational acceleration, in length units per tick^2 (scipy.constants.g)
g == 10

Abs(x) == IF x < 0 THEN -x ELSE x

\* a / b rounded toward zero, b > 0: Python's int() of a quotient
Trunc(a, b) == IF a >= 0 THEN a \div b ELSE -((-a) \div b)

\* sine of an angle in [0, pi], in units of 1/Q
SinHalf(x) == Trunc(Q * 16 * x * (PI - x), 5 * PI * PI - 4 * x * (PI - x))

\* np.sin: reduce the angle to one turn, then the half-wave and its mirror
Sin(x) ==
    LET r == x % (2 * PI)
    IN  IF r <= PI THEN SinHalf(r) ELSE -SinHalf(r - PI)

\* np.arange(0, N*d, d): the uniform grid of N points with spacing d
Grid(N, d) == [k \in 1..N |-> (k - 1) * d]

\* np.zeros_like(a)
ZerosLike(a) == [k \in 1..Len(a) |-> 0]

---------------------------------------------------------------------------
(* euler(t, FD, l, theta0, omega0, gamma, OmegaD), lines 159-177. *)

\* the bracket of line 168, in units of 1/Q of an angle unit per tick^2:
\* -(g/l)*sin(theta[n]) - gamma*omega[n] + FD*sin(OmegaD*t[n]),
\* with g/l in 1/tick^2, gamma in 1/Q per tick and FD in angle units per tick^2
Accel(thn, omn, tn, fd, ll, gam, Om) ==
    -Trunc(Rad * g * Sin(thn), ll) - gam * omn + fd * Sin(Om * tn)

\* line 168 read with the caller's global step Dt in place of the local of line 162
VelStepGlobal(th_, om_, k, tt, fd, d, ll, gam, Om) ==
    om_[k + 1] + Trunc(Accel(th_[k + 1], om_[k + 1], tt[k + 1], fd, ll, gam, Om) * Dt, Q)

\* line 168: the value stored in omega[k+1], from theta[k], omega[k], t[k]
VelStep(th_, om_, k, tt, fd, d, ll, gam, Om) ==
    om_[k + 1] + Trunc(Accel(th_[k + 1], om_[k + 1], tt[k + 1], fd, ll, gam, Om) * d, Q)

\* the explicit Euler angle update: the old velocity omega[k]
AngStepOld(th_, om_, k, d) == th_[k + 1] + om_[k + 1] * d

\* line 169: the value stored in theta[k+1], from theta[k] and the new omega[k+1]
AngStep(th_, om_, k, d) == th_[k + 1] + om_[k + 2] * d

RECURSIVE WrapLowLoop(_)
\* a wrap that repeats until the value is no longer below -pi (while in place of if)
WrapLowLoop(x) == IF x < -PI THEN WrapLowLoop(x + 2 * PI) ELSE x

\* lines 172-173
WrapLow(x) == IF x < -PI THEN x + 2 * PI ELSE x

\* lines 174-175
WrapHigh(x) == IF x >= PI THEN x - 2 * PI ELSE x

\* line 162; t[1] raises IndexError on a grid of fewer than two points
EulerDt ==
    /\ pc = "call"
    /\ IF Len(t) < 2
         THEN /\ pc' = "IndexError"
              /\ dt' = dt
         ELSE /\ dt' = t[2] - t[1]
              /\ pc' = "alloc"
    /\ UNCHANGED <<t, FD, theta, omega, n>>
    /\ UNCHANGED <<paramVars, callerVars, strobeVars, sweepVars, lyapVars>>

\* lines 163-164
EulerAlloc ==
    /\ pc = "alloc"
    /\ theta' = [ZerosLike(t) EXCEPT ![1] = theta0]
    /\ omega' = [ZerosLike(t) EXCEPT ![1] = omega0]
    /\ n' = 0
    /\ pc' = "loop"
    /\ UNCHANGED <<t, FD, dt>>
    /\ UNCHANGED <<paramVars, callerVars, strobeVars, sweepVars, lyapVars>>

\* line 167: the next n of range(t.size-1), or the end of the loop
EulerLoop ==
    /\ pc = "loop"
    /\ pc' = IF n < Len(t) - 1 THEN "vel" ELSE "return"
    /\ UNCHANGED <<t, FD, dt, theta, omega, n>>
    /\ UNCHANGED <<paramVars, callerVars, strobeVars, sweepVars, lyapVars>>

\* line 168
EulerVel ==
    /\ pc = "vel"
    /\ omega' = [omega EXCEPT ![n + 2] =
                    VelStep(theta, omega, n, t, FD, dt, l, gamma, OmegaD)]
    /\ pc' = "ang"
    /\ UNCHANGED <<t, FD, dt, theta, n>>
    /\ UNCHANGED <<paramVars, callerVars, strobeVars, sweepVars, lyapVars>>

\* line 169
EulerAng ==
    /\ pc = "ang"
    /\ theta' = [theta EXCEPT ![n + 2] = AngStep(theta, omega, n, dt)]
    /\ pc' = "wrapLow"
    /\ UNCHANGED <<t, FD, dt, omega, n>>
    /\ UNCHANGED <<paramVars, callerVars, strobeVars, sweepVars, lyapVars>>

\* lines 172-173
EulerWrapLow ==
    /\ pc = "wrapLow"
    /\ theta' = [theta EXCEPT ![n + 2] = WrapLow(theta[n + 2])]
    /\ pc' = "wrapHigh"
    /\ UNCHANGED <<t, FD, dt, omega, n>>
    /\ UNCHANGED <<paramVars, callerVars, strobeVars, sweepVars, lyapVars>>

\* lines 174-175, and the step to the next n
EulerWrapHigh ==
    /\ pc = "wrapHigh"
    /\ theta' = [theta EXCEPT ![n + 2] = WrapHigh(theta[n + 2])]
    /\ n' = n + 1
    /\ pc' = "loop"
    /\ UNCHANGED <<t, FD, dt, omega>>
    /\ UNCHANGED <<paramVars, callerVars, strobeVars, sweepVars, lyapVars>>

\* line 177
EulerReturn ==
    /\ pc = "return"
    /\ pc' = "returned"
    /\ UNCHANGED <<t, FD, dt, theta, omega, n>>
    /\ UNCHANGED <<paramVars, callerVars, strobeVars, sweepVars, lyapVars>>

\* one whole pass of the loop body, lines 168-175, on the pair <<theta, omega>>
EulerBody(s, k, tt, fd, d, ll, gam, Om) ==
    LET om1 == [s[2] EXCEPT ![k + 2] = VelStep(s[1], s[2], k, tt, fd, d, ll, gam, Om)]
        x   == AngStep(s[1], om1, k, d)
    IN  <<[s[1] EXCEPT ![k + 2] = WrapHigh(WrapLow(x))], om1>>

RECURSIVE EulerFrom(_, _, _, _, _, _, _, _)
\* the loop of line 167 from n = k on
EulerFrom(s, k, tt, fd, d, ll, gam, Om) ==
    IF k >= Len(s[1]) - 1
      THEN s
      ELSE EulerFrom(EulerBody(s, k, tt, fd, d, ll, gam, Om), k + 1, tt, fd, d, ll, gam, Om)

\* a whole call of euler on a grid of at least two points: the pair <<theta, omega>>
euler(tt, fd, ll, th0, om0, gam, Om) ==
    EulerFrom(<<[ZerosLike(tt) EXCEPT ![1] = th0], [ZerosLike(tt) EXCEPT ![1] = om0]>>,
              0, tt, fd, tt[2] - tt[1], ll, gam, Om)

---------------------------------------------------------------------------
(* The in-phase time slices, lines 549-558. *)

\* int(a / b), b # 0: Python's int() rounds toward zero
PyInt(a, b) == IF b > 0 THEN Trunc(a, b) ELSE Trunc(-a, -b)

\* line 553, for d = longt[1]*OmegaD # 0:
\* int(2*pi*k/d + 0.5) = int((4*pi*k + d) / (2*d))
Index(k, d) == PyInt(4 * PI * k + d, 2 * d)

\* lines 550-551
StrobeStart ==
    /\ spc = "start"
    /\ inPhase' = <<>>
    /\ sn' = 0
    /\ spc' = "while"
    /\ UNCHANGED <<longt, m>>
    /\ UNCHANGED <<eulerVars, paramVars, callerVars, sweepVars, lyapVars>>

\* line 553.  longt[1] raises IndexError on a grid of fewer than two points;
\* with longt[1]*OmegaD = 0 the quotient of the first pass is 0/0 = nan,
\* and int(nan) raises ValueError.
StrobeIndex ==
    /\ spc = "while"
    /\ sn < MaxIter
    /\ IF Len(longt) < 2
         THEN /\ spc' = "IndexError"
              /\ m' = m
         ELSE IF longt[2] * OmegaD = 0
           THEN /\ spc' = "ValueError"
                /\ m' = m
           ELSE /\ m' = Index(sn, longt[2] * OmegaD)
                /\ spc' = "if"
    /\ UNCHANGED <<longt, inPhase, sn>>
    /\ UNCHANGED <<eulerVars, paramVars, callerVars, sweepVars, lyapVars>>

\* lines 554-555 without line 558: n is not advanced after an append
StrobeAppendOnly ==
    /\ spc = "if"
    /\ m > 1 /\ m < Len(longt)
    /\ inPhase' = Append(inPhase, m)
    /\ spc' = "while"
    /\ UNCHANGED <<longt, m, sn>>
    /\ UNCHANGED <<eulerVars, paramVars, callerVars, sweepVars, lyapVars>>

\* lines 554-555, then line 558
StrobeAppend ==
    /\ spc = "if"
    /\ m > 1 /\ m < Len(longt)
    /\ inPhase' = Append(inPhase, m)
    /\ sn' = sn + 1
    /\ spc' = "while"
    /\ UNCHANGED <<longt, m>>
    /\ UNCHANGED <<eulerVars, paramVars, callerVars, sweepVars, lyapVars>>

\* lines 556-557 with the test m > len(longt)
StrobeBreakLate ==
    /\ spc = "if"
    /\ ~(m > 1 /\ m < Len(longt))
    /\ m > Len(longt)
    /\ spc' = "done"
    /\ UNCHANGED <<longt, inPhase, sn, m>>
    /\ UNCHANGED <<eulerVars, paramVars, callerVars, sweepVars, lyapVars>>

\* lines 556-557
StrobeBreak ==
    /\ spc = "if"
    /\ ~(m > 1 /\ m < Len(longt))
    /\ m >= Len(longt)
    /\ spc' = "done"
    /\ UNCHANGED <<longt, inPhase, sn, m>>
    /\ UNCHANGED <<eulerVars, paramVars, callerVars, sweepVars, lyapVars>>

\* neither branch of lines 554-557, then line 558
StrobeSkip ==
    /\ spc = "if"
    /\ ~(m > 1 /\ m < Len(longt))
    /\ ~(m >= Len(longt))
    /\ sn' = sn + 1
    /\ spc' = "while"
    /\ UNCHANGED <<longt, inPhase, m>>
    /\ UNCHANGED <<eulerVars, paramVars, callerVars, sweepVars, lyapVars>>

---------------------------------------------------------------------------
(* The bifurcation sweep, lines 658-665. *)

\* the number of leading in-phase samples dropped as transients: inPhase[10:]
transient_skip == 10

\* s[:k] of a Python list
DropHead(s, k) == IF Len(s) <= k THEN s ELSE SubSeq(s, 1, k)

\* s[k:] of a Python list
Drop(s, k) == IF Len(s) <= k THEN <<>> ELSE SubSeq(s, k + 1, Len(s))

\* a[idx] of a numpy array a for a list idx of (Python) indices
Take(a, idx) == [r \in 1..Len(idx) |-> a[idx[r] + 1]]

\* the array an iteration would read were the single name th shared by all of them
ThOfName(i) == th[thName][1]

\* the array th of iteration i: the theta returned by its own call of euler
ThOf(i) == th[i][1]

\* line 660, with run true: line 661, np.zeros([len(inPhase[10:]), len(F)])
SweepAlloc ==
    /\ wst = "if"
    /\ spc = "done"
    /\ run
    /\ thetaB' = [i \in 1..Len(F) |-> ZerosLike(Drop(inPhase, transient_skip))]
    /\ wst' = "for"
    /\ UNCHANGED <<F, run, th, thName, wpc>>
    /\ UNCHANGED <<eulerVars, paramVars, callerVars, strobeVars, lyapVars>>

\* line 660, with run false (as line 658 sets it): the cell does nothing
SweepOff ==
    /\ wst = "if"
    /\ spc = "done"
    /\ ~run
    /\ wst' = "off"
    /\ UNCHANGED <<F, run, thetaB, th, thName, wpc>>
    /\ UNCHANGED <<eulerVars, paramVars, callerVars, strobeVars, lyapVars>>

\* line 663 of the iteration for F[i]: th, omega = euler(longt, cF, *params)
SweepIntegrate(i) ==
    /\ wst = "for"
    /\ wpc[i] = "euler"
    /\ th' = [th EXCEPT ![i] = euler(longt, F[i], l, theta0, omega0, gamma, OmegaD)]
    /\ thName' = i
    /\ wpc' = [wpc EXCEPT ![i] = "store"]
    /\ UNCHANGED <<F, run, thetaB, wst>>
    /\ UNCHANGED <<eulerVars, paramVars, callerVars, strobeVars, lyapVars>>

\* the column line 664 assigns
Column(i) == Take(ThOf(i), Drop(inPhase, transient_skip))

\* line 664 of the iteration for F[i]: theta[:,i] = th[inPhase[10:]]
SweepStore(i) ==
    /\ wst = "for"
    /\ wpc[i] = "store"
    /\ thetaB' = [thetaB EXCEPT ![i] = Column(i)]
    /\ wpc' = [wpc EXCEPT ![i] = "end"]
    /\ UNCHANGED <<F, run, th, thName, wst>>
    /\ UNCHANGED <<eulerVars, paramVars, callerVars, strobeVars, lyapVars>>

\* line 665, after the last iteration
SweepSave ==
    /\ wst = "for"
    /\ \A i \in 1..Len(F) : wpc[i] = "end"
    /\ wst' = "saved"
    /\ UNCHANGED <<F, run, thetaB, th, thName, wpc>>
    /\ UNCHANGED <<eulerVars, paramVars, callerVars, strobeVars, lyapVars>>

\* line 662: enumerate(F) takes the values in order, one iteration at a time
InOrder(i) == \A j \in 1..Len(F) : (j < i => wpc[j] = "end") /\ (j > i => wpc[j] = "euler")

SeqIntegrate == \E i \in 1..Len(F) : InOrder(i) /\ SweepIntegrate(i)

SeqStore == \E i \in 1..Len(F) : InOrder(i) /\ SweepStore(i)

\* the iterations as independent workers, each taking its two steps when it likes
ParIntegrate == \E i \in 1..Len(F) : SweepIntegrate(i)

ParStore == \E i \in 1..Len(F) : SweepStore(i)

---------------------------------------------------------------------------
(* The Lyapunov exponent, lines 330-341 and 388-393. *)

\* resolution of the logarithm: units of 1/LogScale (of a binary logarithm)
LogScale == 64

\* log(0) = -inf: below the logarithm of every positive difference
NegInf == 0 - 1

RECURSIVE Log2(_)
\* floor(log2(x)), x >= 1
Log2(x) == IF x < 2 THEN 0 ELSE 1 + Log2(x \div 2)

\* np.log of a difference in angle units: -inf at 0, else the binary logarithm
\* interpolated linearly between the powers of two (strictly increasing below
\* 2*LogScale)
Log(x) ==
    IF x = 0 THEN NegInf
    ELSE LET e == Log2(x)
         IN  e * LogScale + ((x - 2 ^ e) * LogScale) \div (2 ^ e)

\* np.log(a) of an array
LogArr(a) == [k \in 1..Len(a) |-> Log(a[k])]

\* np.abs(a - b) of two arrays of one length
AbsDiff(a, b) == [k \in 1..Len(a) |-> Abs(a[k] - b[k])]

RECURSIVE Ascending(_)
\* the elements of a finite set of integers in increasing order
Ascending(S) ==
    IF S = {} THEN <<>>
    ELSE LET x == CHOOSE y \in S : \A z \in S : y <= z
         IN  <<x>> \o Ascending(S \ {x})

\* np.less, the comparator that finds minima
Less(a, b) == a < b

\* np.greater_equal, the comparator that also takes the points of a plateau
GreaterEqual(a, b) == a >= b

\* np.greater
Greater(a, b) == a > b

\* argrelextrema(data, np.greater)[0]: the (Python) indices whose value compares
\* true against both neighbours; at either end the missing neighbour is the value
\* itself (mode='clip'), so an end point is never taken
ArgRelExtrema(data) ==
    LET N == Len(data)
        at(k) == data[IF k < 1 THEN 1 ELSE IF k > N THEN N ELSE k]
    IN  Ascending({k - 1 : k \in {j \in 1..N : /\ Greater(data[j], at(j - 1))
                                               /\ Greater(data[j], at(j + 1))}})

RECURSIVE Sum(_)
Sum(a) == IF a = <<>> THEN 0 ELSE a[1] + Sum(Tail(a))

\* the least-squares line a0 + a1*x through at least two points with distinct x:
\* <<a0, a1>>, in units of 1/LogScale
LinFit(xs, ys) ==
    LET M   == Len(xs)
        sx  == Sum(xs)
        sy  == Sum(ys)
        sxx == Sum([k \in 1..M |-> xs[k] * xs[k]])
        sxy == Sum([k \in 1..M |-> xs[k] * ys[k]])
        den == M * sxx - sx * sx
        num == M * sxy - sx * sy
    IN  <<PyInt(sy * den - num * sx, M * den), PyInt(num, den)>>

\* an exception raised in place of a result
Raise(e) == [error |-> e, p |-> <<>>]

\* a result returned
Return(v) == [error |-> "", p |-> v]

\* curve_fit(linear, xs, ys)[0]: scipy raises ValueError on data that are not
\* finite and TypeError on fewer points than the two parameters of linear
CurveFit(xs, ys) ==
    IF \E k \in 1..Len(ys) : ys[k] = NegInf THEN Raise("ValueError")
    ELSE IF Len(xs) < 2 THEN Raise("TypeError")
    ELSE Return(LinFit(xs, ys))

\* lines 336-341, one pass: the two runs for F[i] and their absolute difference
LyapDiff ==
    /\ lpc = "diff"
    /\ Len(Dtheta) < Len(F)
    /\ LET cF == F[Len(Dtheta) + 1]
           r1 == euler(t, cF, l, theta0, omega0, gamma, OmegaD)
           r2 == euler(t, cF, l, theta0 + dtheta0, omega0, gamma, OmegaD)
       IN  /\ theta1' = r1[1]
           /\ theta2' = r2[1]
           /\ Dtheta' = Append(Dtheta, AbsDiff(r1[1], r2[1]))
    /\ UNCHANGED <<dtheta0, li, ind, popt, lpc>>
    /\ UNCHANGED <<t, dt, theta, omega, n, pc>>
    /\ F' = F /\ FD' = FD
    /\ UNCHANGED <<run, thetaB, th, thName, wpc, wst>>
    /\ UNCHANGED <<paramVars, callerVars, strobeVars>>

\* the end of the loop of line 336; line 389 of the next cell
LyapDiffEnd ==
    /\ lpc = "diff"
    /\ Len(Dtheta) = Len(F)
    /\ popt' = <<0, 0>>
    /\ li' = 0
    /\ lpc' = "for"
    /\ UNCHANGED <<dtheta0, theta1, theta2, Dtheta, ind>>
    /\ UNCHANGED <<eulerVars, paramVars, callerVars, strobeVars, sweepVars>>

\* line 391
LyapMaxima ==
    /\ lpc = "for"
    /\ li < Len(F)
    /\ ind' = ArgRelExtrema(LogArr(Dtheta[li + 1]))
    /\ lpc' = "fit"
    /\ UNCHANGED <<dtheta0, theta1, theta2, Dtheta, li, popt>>
    /\ UNCHANGED <<eulerVars, paramVars, callerVars, strobeVars, sweepVars>>

\* lines 392-393: the exception of curve_fit ends the cell
LyapFit ==
    /\ lpc = "fit"
    /\ LET extT == LogArr(Take(Dtheta[li + 1], ind))
           fit  == CurveFit(Take(t, ind), extT)
       IN  IF fit.error # ""
             THEN /\ lpc' = fit.error
                  /\ UNCHANGED <<li, popt>>
             ELSE /\ popt' = [popt EXCEPT ![li + 1] = fit.p]
                  /\ li' = li + 1
                  /\ lpc' = "for"
    /\ UNCHANGED <<dtheta0, theta1, theta2, Dtheta, ind>>
    /\ UNCHANGED <<eulerVars, paramVars, callerVars, strobeVars, sweepVars>>

\* the end of the loop of line 390
LyapEnd ==
    /\ lpc = "for"
    /\ li = Len(F)
    /\ lpc' = "done"
    /\ UNCHANGED <<dtheta0, theta1, theta2, Dtheta, li, ind, popt>>
    /\ UNCHANGED <<eulerVars, paramVars, callerVars, strobeVars, sweepVars>>

---------------------------------------------------------------------------
(* The parts at rest, and the specifications. *)

EulerOff ==
    /\ t = <<>> /\ FD = 0 /\ dt = 0 /\ theta = <<>> /\ omega = <<>> /\ n = 0
    /\ pc = "off"

CallerOff ==
    /\ Dt = 0 /\ calls = <<>>

StrobeOff ==
    /\ longt = <<>> /\ inPhase = <<>> /\ sn = 0 /\ m = 0 /\ spc = "off"

SweepIdle ==
    /\ F = <<>> /\ run = FALSE /\ thetaB = <<>> /\ th = <<>> /\ thName = 0
    /\ wpc = <<>> /\ wst = "off"

LyapOff ==
    /\ dtheta0 = 0 /\ theta1 = <<>> /\ theta2 = <<>> /\ Dtheta = <<>> /\ li = 0
    /\ ind = <<>> /\ popt = <<>> /\ lpc = "off"

\* longest grid given to the in-phase loop alone
MaxLong == 8

\* One call of euler, on every grid of up to MaxN points with spacing 0, 1 or 2
\* ticks; the initial angle and velocity are not limited to one turn.
Init ==
    /\ \E N \in 0..MaxN, d \in {0, 1, 2} : t = Grid(N, d)
    /\ FD \in {0, 9}
    /\ l = g
    /\ theta0 \in {-30, -22, -5, 0, 5, 21, 22, 30}
    /\ omega0 \in {-50, -3, 0, 3, 50}
    /\ gamma \in {0, 4}
    /\ OmegaD = 15
    /\ dt = 0 /\ theta = <<>> /\ omega = <<>> /\ n = 0
    /\ pc = "call"
    /\ CallerOff /\ StrobeOff /\ SweepIdle /\ LyapOff

Next ==
    \/ EulerDt
    \/ EulerAlloc
    \/ EulerLoop
    \/ EulerVel
    \/ EulerAng
    \/ EulerWrapLow
    \/ EulerWrapHigh
    \/ EulerReturn

Spec == Init /\ [][Next]_vars

\* The in-phase loop on every grid of up to MaxLong points with spacing 0, 1 or
\* 2 ticks, for driving frequencies of either sign and 0.
InitStrobe ==
    /\ \E N \in 0..MaxLong, d \in {0, 1, 2} : longt = Grid(N, d)
    /\ OmegaD \in {-4, 0, 4, 8, 11, 22, 30, 44}
    /\ l = g /\ theta0 = 0 /\ omega0 = 0 /\ gamma = 0
    /\ inPhase = <<>> /\ sn = 0 /\ m = 0
    /\ spc = "start"
    /\ EulerOff /\ CallerOff /\ SweepIdle /\ LyapOff

NextStrobe ==
    \/ StrobeStart
    \/ StrobeIndex
    \/ StrobeAppend
    \/ StrobeBreak
    \/ StrobeSkip

SpecStrobe == InitStrobe /\ [][NextStrobe]_vars

\* the loop is straight-line Python: a step that can be taken is taken
SpecStrobeFair == SpecStrobe /\ WF_vars(NextStrobe)

\* The in-phase loop and then the sweep cell, on grids of 6, 45 and 49 points: a
\* quarter of a drive period per step, so 1, 11 and 12 in-phase samples.
InitSweep ==
    /\ longt \in {Grid(6, 1), Grid(45, 1), Grid(49, 1)}
    /\ OmegaD = 11
    /\ l = g
    /\ theta0 \in {1, 5}
    /\ omega0 = 0
    /\ gamma \in {0, 4}
    /\ inPhase = <<>> /\ sn = 0 /\ m = 0
    /\ spc = "start"
    /\ F \in {<<>>, <<9>>, <<0, 9>>, <<9, 0, 5>>}
    /\ run \in BOOLEAN
    /\ thetaB = <<>>
    /\ th = [i \in 1..Len(F) |-> <<<<>>, <<>>>>]
    /\ thName = 0
    /\ wpc = [i \in 1..Len(F) |-> "euler"]
    /\ wst = "if"
    /\ EulerOff /\ CallerOff /\ LyapOff

NextSweep ==
    \/ StrobeStart
    \/ StrobeIndex
    \/ StrobeAppend
    \/ StrobeBreak
    \/ StrobeSkip
    \/ SweepAlloc
    \/ SweepOff
    \/ SeqIntegrate
    \/ SeqStore
    \/ SweepSave

SpecSweep == InitSweep /\ [][NextSweep]_vars

NextSweepPar ==
    \/ StrobeStart
    \/ StrobeIndex
    \/ StrobeAppend
    \/ StrobeBreak
    \/ StrobeSkip
    \/ SweepAlloc
    \/ SweepOff
    \/ ParIntegrate
    \/ ParStore
    \/ SweepSave

SpecSweepPar == InitSweep /\ [][NextSweepPar]_vars

\* The two Lyapunov cells on grids of 3, 8 and 16 points, for two driving forces
\* and initial angles that differ by 0, 1 or 2 units.
InitLyap ==
    /\ \E N \in {3, 8, 16} : t = Grid(N, 1)
    /\ F \in {<<0, 9>>, <<9, 20>>, <<20, 9>>}
    /\ l = g
    /\ theta0 \in {1, 5, 10}
    /\ omega0 \in {0, 3}
    /\ gamma \in {0, 4}
    /\ OmegaD = 11
    /\ dtheta0 \in {0, 1, 2}
    /\ theta1 = <<>> /\ theta2 = <<>> /\ Dtheta = <<>> /\ li = 0
    /\ ind = <<>> /\ popt = <<>>
    /\ lpc = "diff"
    /\ FD = 0 /\ dt = 0 /\ theta = <<>> /\ omega = <<>> /\ n = 0 /\ pc = "off"
    /\ run = FALSE /\ thetaB = <<>> /\ th = <<>> /\ thName = 0
    /\ wpc = <<>> /\ wst = "off"
    /\ CallerOff /\ StrobeOff

NextLyap ==
    \/ LyapDiff
    \/ LyapDiffEnd
    \/ LyapMaxima
    \/ LyapFit
    \/ LyapEnd

SpecLyap == InitLyap /\ [][NextLyap]_vars

\* calls the caller has completed before the one under way
MaxCalls == 2

\* the arguments of the call under way, as line 302 passes them
Args ==
    [t |-> t, FD |-> FD, l |-> l, theta0 |-> theta0, omega0 |-> omega0,
     gamma |-> gamma, OmegaD |-> OmegaD]

\* lines 301-302, the next pass of the caller's loop: it keeps what the call
\* returned, rebinds its globals and calls euler again; the frame of the
\* finished call is gone, and nothing of it is handed to the next one
CallerNext ==
    /\ pc = "returned"
    /\ Len(calls) < MaxCalls
    /\ calls' = Append(calls, [args |-> Args, theta |-> theta, omega |-> omega])
    /\ t' \in {Grid(2, 1), Grid(3, 2)}
    /\ theta0' \in {5, 30}
    /\ Dt' \in {1, 2}
    /\ pc' = "call"
    /\ UNCHANGED <<FD, dt, theta, omega, n>>
    /\ UNCHANGED <<l, omega0, gamma, OmegaD>>
    /\ UNCHANGED <<strobeVars, sweepVars, lyapVars>>

\* A caller that calls euler again and again, with arguments and a global step
\* of its own choosing each time.
InitCalls ==
    /\ t \in {Grid(2, 1), Grid(3, 2)}
    /\ FD = 9
    /\ l = g
    /\ theta0 \in {5, 30}
    /\ omega0 = 3
    /\ gamma = 4
    /\ OmegaD = 15
    /\ Dt \in {1, 2}
    /\ calls = <<>>
    /\ dt = 0 /\ theta = <<>> /\ omega = <<>> /\ n = 0
    /\ pc = "call"
    /\ StrobeOff /\ SweepIdle /\ LyapOff

NextCalls ==
    \/ EulerDt
    \/ EulerAlloc
    \/ EulerLoop
    \/ EulerVel
    \/ EulerAng
    \/ EulerWrapLow
    \/ EulerWrapHigh
    \/ EulerReturn
    \/ CallerNext

SpecCalls == InitCalls /\ [][NextCalls]_vars

---------------------------------------------------------------------------
(* The claims. *)

\* C1: every call of euler on a grid of N >= 2 points, whatever theta0 and
\* omega0, returns theta and omega of length N with every theta[n], n = 0
\* included, in [-pi, pi).
C1_ThetaInRange ==
    (pc = "returned" /\ dt > 0) =>
        /\ Len(theta) = Len(t)
        /\ Len(omega) = Len(t)
        /\ \A k \in 1..Len(theta) : -PI <= theta[k] /\ theta[k] < PI

\* C2: in every step the velocity is updated first, from the old angle, the old
\* velocity and the grid time, and the angle second, from the old angle and
\* the velocity just stored: theta[n] + dt*omega[n+1] before the wrap.
C2_VelocityThenAngle ==
    [][/\ pc = "vel" =>
            /\ pc' = "ang"
            /\ theta' = theta
            /\ omega'[n + 2] = omega[n + 1]
                 + Trunc(Accel(theta[n + 1], omega[n + 1], t[n + 1],
                               FD, l, gamma, OmegaD) * dt, Q)
       /\ pc = "ang" =>
            /\ pc' = "wrapLow"
            /\ omega' = omega
            /\ theta'[n + 2] = theta[n + 1] + dt * omega[n + 2]
       /\ pc' = "ang" => pc = "vel"]_vars

\* a step past the first whose angle is about to be updated with a velocity that
\* the same step has changed
C2_Witness ==
    /\ pc = "ang"
    /\ n >= 1
    /\ dt > 0
    /\ omega[n + 2] # omega[n + 1]

\* the in-phase loop runs on a grid with positive spacing and a positive
\* driving frequency
StrobeValid == OmegaD > 0 /\ Len(longt) >= 2 /\ longt[2] > 0

C4_StrictlyWithinHalfStep ==
    (StrobeValid /\ spc = "if" /\ m > 1 /\ m < Len(longt)) =>
        Abs(2 * OmegaD * longt[m + 1] - 4 * PI * sn) < longt[2] * OmegaD

\* the indices int(2*pi*k/d + 0.5), k = 0..K-1, that lie in 2..N-1, in order
RECURSIVE Kept(_, _, _)
Kept(K, d, N) ==
    IF K = 0 THEN <<>>
    ELSE LET x == Index(K - 1, d)
         IN  Kept(K - 1, d, N) \o (IF 1 < x /\ x < N THEN <<x>> ELSE <<>>)

\* C5: on a finite grid with OmegaD > 0 and dt > 0 the index loop ends; it ends
\* at the first n whose index is >= len(longt), having appended exactly the
\* indices of the earlier n that lie in 2..len(longt)-1.
C5_Terminates ==
    /\ (StrobeValid /\ spc = "start") ~> (spc = "done")
    /\ [](StrobeValid /\ spc = "done" =>
            /\ m = Index(sn, longt[2] * OmegaD)
            /\ m >= Len(longt)
            /\ \A k \in 0..(sn - 1) : Index(k, longt[2] * OmegaD) < Len(longt)
            /\ inPhase = Kept(sn, longt[2] * OmegaD, Len(longt))
            /\ \A i \in 1..Len(inPhase) : 1 < inPhase[i] /\ inPhase[i] < Len(longt))

\* a loop that ended after keeping some indices and skipping others
C5_Witness ==
    /\ StrobeValid
    /\ spc = "done"
    /\ Len(inPhase) >= 2
    /\ sn > Len(inPhase) + 1

\* C6: with OmegaD <= 0 the loop fails at once with an error: it completes no
\* pass and returns no index list.
C6_FailsOnNonPositiveFrequency ==
    (OmegaD <= 0 /\ Len(longt) >= 2) =>
        /\ sn = 0
        /\ spc \in {"start", "while", "if", "ValueError", "InvalidInput"}

\* C7: on a grid of fewer than two points, or of spacing 0, euler fails with an
\* error and returns no trajectory.
C7_DegenerateGridFails ==
    (Len(t) < 2 \/ t[2] - t[1] = 0) => pc # "returned"

\* len(a) - k as a length: 0 when a has fewer than k entries
LenLess(a, k) == IF Len(a) >= k THEN Len(a) - k ELSE 0

\* the angle trajectory of one run of the integrator for the amplitude F[i]
ThetaRun(i) == euler(longt, F[i], l, theta0, omega0, gamma, OmegaD)[1]

NumMaxima(a) ==
    Cardinality({k \in 2..(Len(a) - 1) :
                    Log(a[k]) > Log(a[k - 1]) /\ Log(a[k]) > Log(a[k + 1])})

\* C10: when log(Dtheta) has fewer than two local maxima (as when the two
\* trajectories are one) the fit of that difference ends in an error and no
\* (intercept, slope) pair is stored for it.
C10_TooFewMaximaIsAnError ==
    /\ [](\A i \in 1..Len(Dtheta) : NumMaxima(Dtheta[i]) < 2 => li < i)
    /\ [][(lpc = "fit" /\ NumMaxima(Dtheta[li + 1]) < 2) =>
            (lpc' \in {"TypeError", "ValueError"} /\ popt' = popt)]_vars

\* the fit of two identical trajectories has ended in an error
C10_Witness ==
    /\ lpc \in {"TypeError", "ValueError"}
    /\ dtheta0 = 0
    /\ Len(t) > 3
    /\ \A k \in 1..Len(t) : Dtheta[li + 1][k] = 0


\* the (Python) indices of the interior points of d whose logarithm is strictly
\* greater than that of both neighbours
InteriorMaxima(d) ==
    {k \in 1..(Len(d) - 2) : Log(d[k + 1]) > Log(d[k]) /\ Log(d[k + 1]) > Log(d[k + 2])}

\* C11: when line 393 fits F[li], the indices ind handed to it are exactly the
\* interior indices at which log(Dtheta) is strictly greater than at both
\* neighbours, each once; no index at which Dtheta is exactly zero is among them,
\* so no log-value passed to the fit is -inf
C11_ZeroNeverFitted ==
    lpc = "fit" =>
        LET d == Dtheta[li + 1]
        IN  /\ {ind[r] : r \in 1..Len(ind)} = InteriorMaxima(d)
            /\ Len(ind) = Cardinality(InteriorMaxima(d))
            /\ \A r \in 1..Len(ind) : d[ind[r] + 1] # 0
            /\ \A r \in 1..Len(ind) : LogArr(Take(d, ind))[r] # NegInf

\* a difference with an interior zero beside a zero, and maxima that are fitted
C11_Witness ==
    /\ lpc = "fit"
    /\ ind # <<>>
    /\ \E k \in 2..(Len(Dtheta[li + 1]) - 1) :
           Dtheta[li + 1][k] = 0 /\ Dtheta[li + 1][k + 1] = 0


\* the value line 169 stored in theta[k] (Python index) before the wrap, for a
\* step already completed: theta[k-1] and omega[k] are not written again
PreWrap(k) == theta[k] + dt * omega[k + 1]

InRange(x) == -PI <= x /\ x < PI

\* the steps of the loop that a call has completed
StepsDone == IF pc \in {"call", "alloc", "IndexError"} THEN {} ELSE 1..n

Running == pc \in {"call", "alloc", "loop", "vel", "ang", "wrapLow", "wrapHigh", "return"}

\* C13: a call of euler has no side effects. While it runs, the grid t, the
\* other arguments, the caller's globals and the arrays earlier calls returned
\* stay as they are: only the call's own dt, n, theta and omega change. What it
\* returns is a function of its arguments alone, so it equals what any earlier
\* call with equal arguments returned, whatever calls ran in between.
C13_NoSideEffects ==
    /\ [][Running => UNCHANGED <<t, FD, paramVars, callerVars,
                                 strobeVars, sweepVars, lyapVars>>]_vars
    /\ [](pc = "returned" =>
            /\ <<theta, omega>> = euler(t, FD, l, theta0, omega0, gamma, OmegaD)
            /\ \A i \in 1..Len(calls) :
                   calls[i].args = Args =>
                       calls[i].theta = theta /\ calls[i].omega = omega)

\* a third call returns with the arguments of the first, after a second call
\* with other arguments and another result, and under another global step
C13_Witness ==
    /\ pc = "returned"
    /\ Len(calls) = 2
    /\ calls[1].args = Args
    /\ calls[2].args # Args
    /\ calls[2].theta # theta
    /\ Len(theta) = 3
    /\ Dt # dt

===========================================================================
